---- MODULE Spec2Model ----
(***************************************************************************)
(* Model of the two import-path maintenance scripts of AnkaaDesign/api:    *)
(*   fix-paths.py                (Depth-Based Relative Path Normalizer)    *)
(*   update-imports-to-aliases.py (Alias Import Converter)                 *)
(*                                                                         *)
(* A file text is a sequence of tokens.  One-character tokens stand for    *)
(* themselves; the fixed words of the import syntax and of the path names  *)
(* ("from", "require(", "constants", "lib", ...) are atoms of more than    *)
(* one character.  A regular-expression wildcard matches exactly one       *)
(* one-character token, a literal matches the token spelled the same.      *)
(***************************************************************************)
EXTENDS Integers, Sequences, FiniteSets, TLC

\* ----------------------------------------------------------------------
\* Bounds of the explored inputs
\* ----------------------------------------------------------------------
MaxUp    == 12   \* most leading "../" segments of an input specifier
MaxDepth == 2    \* deepest directory of a file below the source root
MaxFiles == 3    \* most entries of a walked tree
MaxRuns  == 2    \* runs of main in a row

\* ----------------------------------------------------------------------
\* Alphabet
\* ----------------------------------------------------------------------
Quotes == {"'", "\""}

Chars == {".", "/", "'", "\"", " ", "a", "b", "c", "d", "@", ")", ";"}

\* regex "." : any single character (no newline occurs in the alphabet)
AnyChar(tok) == tok \in Chars

\* regex "\s"
IsSpace(tok) == tok = " "

\* packages = ['constants', 'types', 'utils', 'schemas']
packages == <<"constants", "types", "utils", "schemas">>

LevelLo == 1
LevelHi == 10

Min(S) == CHOOSE x \in S : \A y \in S : x <= y

Tok(t, i) == IF i >= 1 /\ i <= Len(t) THEN t[i] ELSE "<eof>"

RECURSIVE Rep(_, _)
\* Python's  s * n  on token sequences
Rep(s, n) == IF n <= 0 THEN <<>> ELSE s \o Rep(s, n - 1)

\* Position of the first quote at or after i, 0 when there is none:
\* where a greedy run [^'"]* followed by ['"] ends.
FirstQuote(t, i) ==
  LET qs == {j \in i..Len(t) : t[j] \in Quotes}
  IN  IF qs = {} THEN 0 ELSE Min(qs)

\* (?:/[^'"]*)?['"]  after a package name ending at position p:
\* position of the closing quote, 0 when the tail does not match.
OptSubTail(t, p) ==
  IF Tok(t, p + 1) \in Quotes THEN p + 1
  ELSE IF Tok(t, p + 1) = "/" THEN FirstQuote(t, p + 2)
  ELSE 0

\* ['"]  after a package name ending at position p
BareTail(t, p) == IF Tok(t, p + 1) \in Quotes THEN p + 1 ELSE 0

\* /([^'"]+)['"]  after a package name ending at position p
SubTail(t, p) ==
  IF Tok(t, p + 1) = "/" /\ Tok(t, p + 2) \notin Quotes
  THEN FirstQuote(t, p + 3)
  ELSE 0

\* n unescaped "../" in a pattern: n times (two wildcards and a slash),
\* starting at position i
WildSegs(t, i, n) ==
  \A m \in 0..(n - 1) :
     /\ AnyChar(Tok(t, i + 3 * m))
     /\ AnyChar(Tok(t, i + 3 * m + 1))
     /\ Tok(t, i + 3 * m + 2) = "/"

\* \.\.+  starting at i: number of dots matched (greedy), 0 when no match
DotRun(t, i) ==
  LET stops == {j \in i..(Len(t) + 1) : Tok(t, j) # "."}
      n     == Min(stops) - i
  IN  IF n >= 2 THEN n ELSE 0

\* from\s+  starting at i: position after the whitespace, 0 when no match
FromSpaces(t, i) ==
  IF Tok(t, i) # "from" \/ ~IsSpace(Tok(t, i + 1)) THEN 0
  ELSE Min({j \in (i + 2)..(Len(t) + 1) : ~IsSpace(Tok(t, j))})

\* ----------------------------------------------------------------------
\* re.sub: replace every non-overlapping match, leftmost first
\* ----------------------------------------------------------------------
\* Python's str.rstrip(chars)
RECURSIVE RStrip(_, _)
RStrip(s, chars) ==
  IF Len(s) > 0 /\ s[Len(s)] \in chars
  THEN RStrip(SubSeq(s, 1, Len(s) - 1), chars)
  ELSE s

\* positions where the separator  / package /  occurs in s
SepAt(s, package) ==
  {j \in 1..Len(s) : s[j] = "/" /\ Tok(s, j + 1) = package /\ Tok(s, j + 2) = "/"}

\* f'/{package}/' in import_str
HasSep(s, package) == SepAt(s, package) # {}

\* import_str.split(f'/{package}/')[1] : the piece between the first
\* separator and the next one that does not overlap it (or the end)
SplitSecond(s, package) ==
  LET j1    == Min(SepAt(s, package))
      later == {j \in SepAt(s, package) : j >= j1 + 3}
      stop  == IF later = {} THEN Len(s) ELSE Min(later) - 1
  IN  SubSeq(s, j1 + 3, stop)

\* prefix = './' if depth == 0 else '../' * depth
prefix(depth) == IF depth = 0 THEN <<".", "/">> ELSE Rep(<<".", ".", "/">>, depth)

\* def replace_import(match)
replace_import(import_str, package, depth) ==
  IF HasSep(import_str, package)
  THEN LET subpath == RStrip(SplitSecond(import_str, package), {"\"", "'"})
       IN  <<"from", " ", "'">> \o prefix(depth) \o <<package, "/">> \o subpath \o <<"'">>
  ELSE <<"from", " ", "'">> \o prefix(depth) \o <<package, "'">>

\* def replace_require(match)
replace_require(import_str, package, depth) ==
  IF HasSep(import_str, package)
  THEN LET subpath == RStrip(SplitSecond(import_str, package), {"\"", "'", ")"})
       IN  <<"require(", "'">> \o prefix(depth) \o <<package, "/">> \o subpath \o <<"'", ")">>
  ELSE <<"require(", "'">> \o prefix(depth) \o <<package, "'", ")">>

\* ----------------------------------------------------------------------
\* The patterns of the two scripts
\* ----------------------------------------------------------------------
\* The three patterns of one (package, level) iteration of the Normalizer,
\* in the order the loop body applies them.
LevelPatterns(package, level) ==
  << [kind |-> "pattern",         package |-> package, level |-> level],
     [kind |-> "simple_pattern",  package |-> package, level |-> level],
     [kind |-> "require_pattern", package |-> package, level |-> level] >>

RECURSIVE LevelsFrom(_, _)
\* for level in range(1, 11)
LevelsFrom(package, level) ==
  IF level > LevelHi THEN <<>>
  ELSE LevelPatterns(package, level) \o LevelsFrom(package, level + 1)

RECURSIVE PackagesFrom(_)
\* for package in packages
PackagesFrom(k) ==
  IF k > Len(packages) THEN <<>>
  ELSE LevelsFrom(packages[k], LevelLo) \o PackagesFrom(k + 1)

\* every substitution of fix_import_paths in the order it is applied: the
\* nested loops, then the express.types rule
FixPatterns == PackagesFrom(1) \o << [kind |-> "express", package |-> "types", level |-> 0] >>

\* The four `from` patterns of one package, in list order
FromPatterns(package) ==
  << [kind |-> "from_dotdot",     package |-> package, level |-> 0],
     [kind |-> "from_dotdot_sub", package |-> package, level |-> 0],
     [kind |-> "from_dot",        package |-> package, level |-> 0],
     [kind |-> "from_dot_sub",    package |-> package, level |-> 0] >>

\* The two `require(` patterns of one package, in list order
RequirePatterns(package) ==
  << [kind |-> "require_dotdot",     package |-> package, level |-> 0],
     [kind |-> "require_dotdot_sub", package |-> package, level |-> 0] >>

\* patterns = [ ... ]  of update_imports_to_aliases
patterns ==
  FromPatterns("constants") \o FromPatterns("types")
    \o FromPatterns("utils") \o FromPatterns("schemas")
    \o RequirePatterns("constants") \o RequirePatterns("types")
    \o RequirePatterns("utils") \o RequirePatterns("schemas")

\* from ['"]  at i (one space exactly): position of the quote, else 0
FromQuote(t, i) ==
  IF Tok(t, i) = "from" /\ Tok(t, i + 1) = " " /\ Tok(t, i + 2) \in Quotes
  THEN i + 2 ELSE 0

\* from\s+['"]  at i: position of the quote, else 0
FromSpacesQuote(t, i) ==
  IF FromSpaces(t, i) > 0 /\ Tok(t, FromSpaces(t, i)) \in Quotes
  THEN FromSpaces(t, i) ELSE 0

\* require\(['"]  at i: position of the quote, else 0
RequireQuote(t, i) ==
  IF Tok(t, i) = "require(" /\ Tok(t, i + 1) \in Quotes THEN i + 1 ELSE 0

\* a closing quote at e followed by \) : position of the parenthesis, else 0
ThenParen(t, e) == IF e > 0 /\ Tok(t, e + 1) = ")" THEN e + 1 ELSE 0

\* after the opening quote at q: n literal dots (n > 0), "/" and the name;
\* position of the name, else 0
DotsThenName(t, q, n, name) ==
  IF q > 0 /\ n > 0 /\ Tok(t, q + n + 1) = "/" /\ Tok(t, q + n + 2) = name
  THEN q + n + 2 ELSE 0

\* after the opening quote at q: n unescaped "../" and the name;
\* position of the name, else 0
WildThenName(t, q, n, name) ==
  IF q > 0 /\ WildSegs(t, q + 1, n) /\ Tok(t, q + 1 + 3 * n) = name
  THEN q + 1 + 3 * n ELSE 0

\* after the opening quote at q: a literal "../", n unescaped "../" and the
\* name; position of the name, else 0
UpWildThenName(t, q, n, name) ==
  IF q > 0 /\ Tok(t, q + 1) = "." /\ Tok(t, q + 2) = "." /\ Tok(t, q + 3) = "/"
  THEN WildThenName(t, q + 3, n, name) ELSE 0

\* after the opening quote at q: one unescaped "." , "/" and the name;
\* position of the name, else 0
AnyThenName(t, q, name) ==
  IF q > 0 /\ AnyChar(Tok(t, q + 1)) /\ Tok(t, q + 2) = "/" /\ Tok(t, q + 3) = name
  THEN q + 3 ELSE 0

Then(p, e) == IF p > 0 THEN e ELSE 0

\* End position of the match of pattern pat that starts at i, 0 when there
\* is none.
\*  fix_import_paths:
\*   pattern            from ['"]\.\./ (../)*level P(?:/[^'"]*)?['"]
\*   simple_pattern     from ['"] (../)*(level+1) P(?:/[^'"]*)?['"]
\*   require_pattern    require\(['"] (../)*(level+1) P(?:/[^'"]*)?['"]\)
\*   express            from ['"]\.\.+/types/express\.types['"]
\*  update_imports_to_aliases:
\*   from_dotdot        from\s+['"]\.\.+/P['"]
\*   from_dotdot_sub    from\s+['"]\.\.+/P/([^'"]+)['"]
\*   from_dot           from\s+['"]./P['"]
\*   from_dot_sub       from\s+['"]./P/([^'"]+)['"]
\*   require_dotdot     require\(['"]\.\.+/P['"]
\*   require_dotdot_sub require\(['"]\.\.+/P/([^'"]+)['"]
\* The dots of the repeated "../" of the first three, and the "." of
\* from_dot, are not escaped in the source.
MatchEnd(pat, t, i) ==
  CASE pat.kind = "pattern" ->
         Then(UpWildThenName(t, FromQuote(t, i), pat.level, pat.package),
              OptSubTail(t, UpWildThenName(t, FromQuote(t, i), pat.level, pat.package)))
    [] pat.kind = "simple_pattern" ->
         Then(WildThenName(t, FromQuote(t, i), pat.level + 1, pat.package),
              OptSubTail(t, WildThenName(t, FromQuote(t, i), pat.level + 1, pat.package)))
    [] pat.kind = "require_pattern" ->
         Then(WildThenName(t, RequireQuote(t, i), pat.level + 1, pat.package),
              ThenParen(t, OptSubTail(t, WildThenName(t, RequireQuote(t, i), pat.level + 1, pat.package))))
    [] pat.kind = "express" ->
         IF /\ DotsThenName(t, FromQuote(t, i), DotRun(t, i + 3), "types") > 0
            /\ Tok(t, i + 3 + DotRun(t, i + 3) + 2) = "/"
            /\ Tok(t, i + 3 + DotRun(t, i + 3) + 3) = "express.types"
            /\ Tok(t, i + 3 + DotRun(t, i + 3) + 4) \in Quotes
         THEN i + 3 + DotRun(t, i + 3) + 4 ELSE 0
    [] pat.kind = "from_dotdot" ->
         Then(FromSpacesQuote(t, i),
              Then(DotsThenName(t, FromSpacesQuote(t, i), DotRun(t, FromSpacesQuote(t, i) + 1), pat.package),
                   BareTail(t, DotsThenName(t, FromSpacesQuote(t, i), DotRun(t, FromSpacesQuote(t, i) + 1), pat.package))))
    [] pat.kind = "from_dotdot_sub" ->
         Then(FromSpacesQuote(t, i),
              Then(DotsThenName(t, FromSpacesQuote(t, i), DotRun(t, FromSpacesQuote(t, i) + 1), pat.package),
                   SubTail(t, DotsThenName(t, FromSpacesQuote(t, i), DotRun(t, FromSpacesQuote(t, i) + 1), pat.package))))
    [] pat.kind = "from_dot" ->
         Then(AnyThenName(t, FromSpacesQuote(t, i), pat.package),
              BareTail(t, AnyThenName(t, FromSpacesQuote(t, i), pat.package)))
    [] pat.kind = "from_dot_sub" ->
         Then(AnyThenName(t, FromSpacesQuote(t, i), pat.package),
              SubTail(t, AnyThenName(t, FromSpacesQuote(t, i), pat.package)))
    [] pat.kind = "require_dotdot" ->
         Then(DotsThenName(t, RequireQuote(t, i), DotRun(t, i + 2), pat.package),
              BareTail(t, DotsThenName(t, RequireQuote(t, i), DotRun(t, i + 2), pat.package)))
    [] pat.kind = "require_dotdot_sub" ->
         Then(DotsThenName(t, RequireQuote(t, i), DotRun(t, i + 2), pat.package),
              SubTail(t, DotsThenName(t, RequireQuote(t, i), DotRun(t, i + 2), pat.package)))

\* the text of group 1 of an alias pattern with a sub-path: what lies
\* between "P/" and the closing quote of the match m
Group1(m, package) ==
  SubSeq(m, Min({k \in 1..Len(m) : m[k] = package}) + 2, Len(m) - 1)

\* a slip: the alias written with a slash after the "@"
AliasNameSlash(package) == <<"@", "/", package>>

\* the alias of a package in the replacement templates: @constants, ...
AliasName(package) == <<"@", package>>

\* What a match m of pattern pat is replaced by: the result of
\* replace_import / replace_require, the f-string of the express rule, or
\* the expanded template of an alias pattern.
Replacement(pat, m, d) ==
  CASE pat.kind \in {"pattern", "simple_pattern"} -> replace_import(m, pat.package, d)
    [] pat.kind = "require_pattern" -> replace_require(m, pat.package, d)
    [] pat.kind = "express" ->
         <<"from", " ", "'">> \o prefix(d) \o <<"types", "/", "express.types", "'">>
    [] pat.kind \in {"from_dotdot", "from_dot"} ->
         <<"from", " ", "'">> \o AliasName(pat.package) \o <<"'">>
    [] pat.kind \in {"from_dotdot_sub", "from_dot_sub"} ->
         <<"from", " ", "'">> \o AliasName(pat.package) \o <<"/">>
           \o Group1(m, pat.package) \o <<"'">>
    [] pat.kind = "require_dotdot" ->
         <<"require(", "'">> \o AliasName(pat.package) \o <<"'">>
    [] pat.kind = "require_dotdot_sub" ->
         <<"require(", "'">> \o AliasName(pat.package) \o <<"/">>
           \o Group1(m, pat.package) \o <<"'">>

\* ----------------------------------------------------------------------
\* re.sub: the leftmost match is replaced, the scan goes on after it
\* ----------------------------------------------------------------------
\* the literal every match of pat begins with
Keyword(pat) ==
  IF pat.kind \in {"require_pattern", "require_dotdot", "require_dotdot_sub"}
  THEN "require(" ELSE "from"

\* the positions from lo on where a match of pat starts
Starts(pat, t, lo) ==
  {i \in lo..Len(t) : t[i] = Keyword(pat) /\ MatchEnd(pat, t, i) > 0}

RECURSIVE Scan(_, _, _, _)
\* the text from lo on with the matches starting at S replaced
Rewrite(pat, t, lo, S, d) ==
  IF S = {} THEN SubSeq(t, lo, Len(t))
  ELSE SubSeq(t, lo, Min(S) - 1)
         \o Replacement(pat, SubSeq(t, Min(S), MatchEnd(pat, t, Min(S))), d)
         \o Scan(pat, t, MatchEnd(pat, t, Min(S)) + 1, d)

Scan(pat, t, lo, d) ==
  CHOOSE out \in { Rewrite(pat, t, lo, S, d) : S \in {Starts(pat, t, lo)} } : TRUE

\* re.sub(pattern, replacement, content)
re_sub(pat, content, d) == Scan(pat, content, 1, d)

RECURSIVE ApplyRange(_, _, _, _, _)
\* content = re.sub(...) for the patterns lo..hi of the list, in order
\* (the range is halved so that the evaluation does not nest one level
\* per pattern)
ApplyRange(pats, lo, hi, content, d) ==
  IF lo > hi THEN content
  ELSE IF lo = hi THEN re_sub(pats[lo], content, d)
  ELSE CHOOSE out \in
         { ApplyRange(pats, ((lo + hi) \div 2) + 1, hi, c, d) :
             c \in {ApplyRange(pats, lo, (lo + hi) \div 2, content, d)} } : TRUE

\* The text transformation of fix_import_paths for a file at depth d
fix_import_paths(content, d) == ApplyRange(FixPatterns, 1, Len(FixPatterns), content, d)

\* The text transformation of update_imports_to_aliases
update_imports_to_aliases(content) == ApplyRange(patterns, 1, Len(patterns), content, 0)

\* ----------------------------------------------------------------------
\* Input texts: import statements rendered to tokens
\* ----------------------------------------------------------------------
\* n literal "../" segments
Up(n) == Rep(<<".", ".", "/">>, n)

\* A statement is a keyword, the spaces after it, the opening quote, the
\* specifier and the closing tokens (none when the string is left open).
Render(s) ==
  <<s.kw>> \o Rep(<<" ">>, s.ws) \o <<s.q>> \o s.spec \o s.end

RECURSIVE RenderAll(_)
RenderAll(ss) == IF ss = <<>> THEN <<>> ELSE Render(Head(ss)) \o RenderAll(Tail(ss))

RelativePrefixes == {Up(n) : n \in 1..MaxUp} \cup {<<".", "/">>}

\* prefixes that are not a run of "../" nor a single "./"
OtherPrefixes ==
  { <<>>, <<"@", "/">>, <<"a", "/">>, <<"a", "b", "/", "c", "d", "/">>,
    <<".", ".", "/", "a", "b", "/">> }

Subs(name) ==
  { <<>>, <<"/", "foo", "/", "bar">>, <<"/", "a", "/", name, "/", "b">>,
    <<"/", "express.types">> }

RelativeSpecifiers ==
  UNION { { pre \o <<name>> \o sub : pre \in RelativePrefixes, sub \in Subs(name) } :
          name \in {"constants", "types", "lib"} }

OtherSpecifiers ==
  { pre \o <<name>> \o sub :
      pre \in OtherPrefixes, name \in {"constants", "types", "utils"},
      sub \in {<<>>, <<"/", "foo", "/", "bar">>} }

Specifiers == RelativeSpecifiers \cup OtherSpecifiers

Closed(kw, q) == IF kw = "require(" THEN <<q, ")", ";">> ELSE <<q, ";">>

Statement(kw, ws, q, spec) ==
  [kw |-> kw, ws |-> ws, q |-> q, spec |-> spec, end |-> Closed(kw, q)]

\* one properly closed statement
ClosedStatements ==
  { Statement("from", 1, "'", sp) : sp \in Specifiers }
  \cup { Statement("require(", 0, "'", sp) : sp \in Specifiers }
  \cup { Statement("from", 1, "\"", Up(n) \o <<name>> \o sub) :
           n \in 1..3, name \in {"constants", "lib"}, sub \in {<<>>, <<"/", "foo", "/", "bar">>} }
  \cup { Statement("require(", 0, "\"", Up(n) \o <<"types">> \o sub) :
           n \in 1..3, sub \in {<<>>, <<"/", "foo", "/", "bar">>} }

\* a few statements with two spaces after `from`, and a `require` whose
\* sub-path ends in a parenthesis
OddStatements ==
  { [kw |-> "from", ws |-> 2, q |-> "'", spec |-> Up(n) \o <<name>>, end |-> <<"'", ";">>] :
      n \in 1..3, name \in {"constants", "lib"} }
  \cup
  { [kw |-> "require(", ws |-> 0, q |-> "'",
     spec |-> Up(n) \o <<"utils", "/", "foo", ")">>, end |-> <<"'", ")", ";">>] :
      n \in 1..3 }

\* statements whose string is never closed, so that the text runs on into
\* the next statement
OpenSpecs ==
  { Up(1) \o <<"constants", "/">>, Up(3) \o <<"constants", "/">>,
    <<"a", "b", "/", "c", "d", "/", "constants", "/">>,
    Up(2) \o <<"lib", "/">> }

OpenStatements ==
  { [kw |-> "from", ws |-> 1, q |-> "'", spec |-> sp, end |-> <<>>] : sp \in OpenSpecs }

SecondSpecs ==
  { Up(1) \o <<"constants", "/", "foo">>, Up(3) \o <<"constants", "/", "foo">>,
    <<"a", "b", "/", "c", "d", "/", "constants", "/", "foo">>,
    Up(2) \o <<"types">> }

SecondStatements ==
  { [kw |-> "from", ws |-> 1, q |-> "'", spec |-> sp, end |-> <<"'", ";">>] : sp \in SecondSpecs }

\* the statement lists a single file may hold
FileInputs ==
  { <<s>> : s \in ClosedStatements \cup OddStatements }
  \cup { <<s1, s2>> : s1 \in OpenStatements \cup SecondStatements, s2 \in SecondStatements }
  \cup { <<>> }

\* Path(file_path).relative_to(src) .parts
PathAt(d) == Rep(<<"dir">>, d) \o <<"file.ts">>

\* depth = len(rel_path.parts) - 1
depth(parts) == Len(parts) - 1

\* ----------------------------------------------------------------------
\* State: one run (or two runs in a row) of a script's main over a tree
\* ----------------------------------------------------------------------
VARIABLES
  tool,         \* "fix" (fix-paths.py) or "alias" (update-imports-to-aliases.py)
  path,         \* per entry found by rglob('*.ts'): its parts below the root
  isfile,       \* per entry: file_path.is_file()
  stmts,        \* per entry: the statements its first text was rendered from
  disk,         \* per entry: the text of the file now
  before,       \* per entry: the text of the file when this run began
  pos,          \* the entry the loop of main is at
  fixed_count,  \* main's counter
  printed,      \* the entries reported by a "Fixed:" line, in order
  total,        \* the count printed at the end, -1 before it is printed
  pc,           \* "loop", "done" or "aborted" (uncaught exception)
  run,          \* which run of main this is
  written,      \* the entries overwritten in this run
  failed_at     \* the entry whose read or write raised, 0 when none did

vars == <<tool, path, isfile, stmts, disk, before, pos, fixed_count, printed,
          total, pc, run, written, failed_at>>

Tools == {"fix", "alias"}

\* the in-memory transformation of the running script
Transform(t, content, parts) ==
  IF t = "fix" THEN fix_import_paths(content, depth(parts))
  ELSE update_imports_to_aliases(content)

\* a slip: the file is written and counted whether or not it changed
ChangedAlways(content, original_content) == TRUE

\* if content != original_content
Changed(content, original_content) == content # original_content

Entry(parts, file, ss) == [parts |-> parts, isfile |-> file, stmts |-> ss]

\* a tree of one entry: any input text at any depth, or a directory
FileEntries ==
  { Entry(PathAt(d), TRUE, ss) : d \in 0..MaxDepth, ss \in FileInputs }
  \cup { Entry(PathAt(d), FALSE, <<>>) : d \in 0..MaxDepth }

\* the entries of the larger trees: a file only the Normalizer changes, a
\* file only the Alias Converter changes, and a directory named like a file
TreeEntries ==
  { Entry(PathAt(2), TRUE, <<Statement("from", 1, "'", Up(3) \o <<"constants">>)>>),
    Entry(PathAt(1), TRUE, <<Statement("from", 1, "\"", Up(1) \o <<"utils", "/", "foo">>)>>),
    Entry(PathAt(1), FALSE, <<>>) }

Trees == UNION { [1..n -> TreeEntries] : n \in 0..MaxFiles }

InitWith(t, entries) ==
  /\ tool = t
  /\ path = [f \in DOMAIN entries |-> entries[f].parts]
  /\ isfile = [f \in DOMAIN entries |-> entries[f].isfile]
  /\ stmts = [f \in DOMAIN entries |-> entries[f].stmts]
  /\ disk = [f \in DOMAIN entries |-> RenderAll(entries[f].stmts)]
  /\ before = [f \in DOMAIN entries |-> RenderAll(entries[f].stmts)]
  /\ pos = 1
  /\ fixed_count = 0
  /\ printed = <<>>
  /\ total = -1
  /\ pc = "loop"
  /\ run = 1
  /\ written = {}
  /\ failed_at = 0

\* main starts over a tree of several entries
Init == \E t \in Tools : \E entries \in Trees : InitWith(t, entries)

\* main starts over a tree of a single entry
InitFile == \E t \in Tools : \E e \in FileEntries : InitWith(t, <<e>>)

AtEntry == pc = "loop" /\ pos <= Len(disk)

\* One iteration of main's loop on a regular file, no exception: read,
\* transform, overwrite when changed, count and report.
ProcessFile ==
  /\ AtEntry /\ isfile[pos]
  /\ LET original_content == disk[pos]
         content == Transform(tool, original_content, path[pos])
     IN  IF Changed(content, original_content)
         THEN /\ disk' = [disk EXCEPT ![pos] = content]
              /\ written' = written \cup {pos}
              /\ fixed_count' = fixed_count + 1
              /\ printed' = Append(printed, pos)
         ELSE UNCHANGED <<disk, written, fixed_count, printed>>
  /\ pos' = pos + 1
  /\ UNCHANGED <<tool, path, isfile, stmts, before, total, pc, run, failed_at>>

\* if file_path.is_file()  is false: the entry is passed over
SkipEntry ==
  /\ AtEntry /\ ~isfile[pos]
  /\ pos' = pos + 1
  /\ UNCHANGED <<tool, path, isfile, stmts, disk, before, fixed_count, printed,
                 total, pc, run, written, failed_at>>

\* a slip: the exception is caught and the loop goes on with the next entry
ReadErrorCaught ==
  /\ pc = "loop" /\ pos <= Len(disk) /\ isfile[pos]
  /\ failed_at' = pos
  /\ pos' = pos + 1
  /\ UNCHANGED <<tool, path, isfile, stmts, disk, before, fixed_count,
                 printed, total, pc, run, written>>

\* open(..., 'r') or f.read() raises: nothing catches it, the run ends
ReadError ==
  /\ AtEntry /\ isfile[pos]
  /\ pc' = "aborted"
  /\ failed_at' = pos
  /\ UNCHANGED <<tool, path, isfile, stmts, disk, before, pos, fixed_count,
                 printed, total, run, written>>

\* open(..., 'w') or f.write() raises: the file is as it was (open failed)
\* or truncated (the write failed); nothing catches it, the run ends
WriteError ==
  /\ AtEntry /\ isfile[pos]
  /\ Changed(Transform(tool, disk[pos], path[pos]), disk[pos])
  /\ \E left \in {disk[pos], <<>>} : disk' = [disk EXCEPT ![pos] = left]
  /\ pc' = "aborted"
  /\ failed_at' = pos
  /\ UNCHANGED <<tool, path, isfile, stmts, before, pos, fixed_count,
                 printed, total, run, written>>

\* the loop is over: print the total
Finish ==
  /\ pc = "loop" /\ pos = Len(disk) + 1
  /\ total' = fixed_count
  /\ pc' = "done"
  /\ UNCHANGED <<tool, path, isfile, stmts, disk, before, pos, fixed_count,
                 printed, run, written, failed_at>>

\* the same script is started again on the tree the last run left
RunAgain ==
  /\ pc = "done" /\ run < MaxRuns
  /\ run' = run + 1
  /\ before' = disk
  /\ pos' = 1
  /\ fixed_count' = 0
  /\ printed' = <<>>
  /\ total' = -1
  /\ pc' = "loop"
  /\ written' = {}
  /\ UNCHANGED <<tool, path, isfile, stmts, disk, failed_at>>

Next == ProcessFile \/ SkipEntry \/ ReadError \/ WriteError \/ Finish \/ RunAgain

Spec == Init /\ [][Next]_vars

SpecFile == InitFile /\ [][Next]_vars

\* ----------------------------------------------------------------------
\* Vocabulary of the claims
\* ----------------------------------------------------------------------
Files == DOMAIN disk

PackageSet == {packages[k] : k \in DOMAIN packages}

\* the text the file had before the first run
Orig(f) == RenderAll(stmts[f])

\* the file has been through the loop body of the first run
Processed(f) == isfile[f] /\ (run > 1 \/ f < pos)

\* the file holds exactly one statement, and its string is closed
OneClosed(f) ==
  isfile[f] /\ Len(stmts[f]) = 1 /\ stmts[f][1].end # <<>>

\* the specifier has a literal "../" as its segment number m + 1
IsUpAt(sp, m) ==
  Tok(sp, 3 * m + 1) = "." /\ Tok(sp, 3 * m + 2) = "." /\ Tok(sp, 3 * m + 3) = "/"

\* number of leading literal "../" segments of a specifier
LeadUps(sp) ==
  CHOOSE n \in 0..(Len(sp) \div 3) :
    (\A m \in 0..(n - 1) : IsUpAt(sp, m)) /\ ~IsUpAt(sp, n)

\* a run of n >= 1 "../" directly followed by one of the four package names
RelativePackage(sp) ==
  LeadUps(sp) >= 1 /\ Tok(sp, 3 * LeadUps(sp) + 1) \in PackageSet

\* what follows the leading "../" segments: the package and its sub-path
AfterUps(sp) == SubSeq(sp, 3 * LeadUps(sp) + 1, Len(sp))

\* the statement s with its specifier replaced, in the form both scripts
\* emit: one space after `from`, single quotes
Rewritten(s, sp) ==
  Render([kw |-> s.kw, ws |-> IF s.kw = "from" THEN 1 ELSE 0, q |-> "'",
          spec |-> sp, end |-> Closed(s.kw, "'")])

\* every string of the file is closed, and no specifier holds a quote or a
\* keyword: no match of a pattern can run into the next statement
WellFormed(f) ==
  \A k \in 1..Len(stmts[f]) :
     /\ stmts[f][k].end # <<>>
     /\ \A j \in 1..Len(stmts[f][k].spec) :
          stmts[f][k].spec[j] \notin Quotes \cup {"from", "require("}

\* some pattern of the list matches somewhere in the text
SomeMatch(pats, t) ==
  \E k \in 1..Len(pats) : Starts(pats[k], t, 1) # {}

\* ----------------------------------------------------------------------
\* Claims
\* ----------------------------------------------------------------------

\* C1: depth correctness of the Normalizer.  For a file at depth d whose
\* statement is a `from` import or `require(...)` call of n >= 1 leading
\* "../" segments followed by one of the four packages (with or without a
\* sub-path), the text after the run has, between the opening quote and the
\* package name, exactly prefix(d): d times "../", or "./" when d = 0.
C1_DepthCorrect ==
  \A f \in Files :
    (tool = "fix" /\ Processed(f) /\ OneClosed(f) /\ RelativePackage(stmts[f][1].spec))
      => LET t == disk[f]
             q == FirstQuote(t, 1)
             p == Min({k \in (q + 1)..Len(t) : t[k] \in PackageSet})
         IN  SubSeq(t, q + 1, p - 1) = prefix(depth(path[f]))

\* C2: the Alias Converter converts relative imports of every depth.  For
\* every n >= 1 and package p, a specifier of n leading "../" followed by
\* p[/s] in a `from` import or `require(` call is rewritten to @p[/s].
C2_AliasEveryDepth ==
  \A f \in Files :
    (tool = "alias" /\ Processed(f) /\ OneClosed(f) /\ RelativePackage(stmts[f][1].spec))
      => disk[f] = Rewritten(stmts[f][1], <<"@">> \o AfterUps(stmts[f][1].spec))

\* C4: sub-path preservation in the Normalizer.  Whenever a specifier
\* <relative prefix><package>/<subpath> is matched by a pattern of the
\* Normalizer, the text after the run is the statement with the specifier
\* <computed prefix><package>/<subpath>, the sub-path unchanged.
C4_SubPathPreserved ==
  \A f \in Files :
    ( /\ tool = "fix" /\ Processed(f) /\ OneClosed(f)
      /\ RelativePackage(stmts[f][1].spec)
      /\ Tok(AfterUps(stmts[f][1].spec), 2) = "/"
      /\ SomeMatch(FixPatterns, Orig(f)) )
      => disk[f] = Rewritten(stmts[f][1],
                             prefix(depth(path[f])) \o AfterUps(stmts[f][1].spec))

\* C6: the express.types rule of the Normalizer.  For a file at depth d,
\* every `from` specifier made of n >= 1 relative levels followed by
\* types/express.types is rewritten to prefix(d) types/express.types.
C6_ExpressTypes ==
  \A f \in Files :
    ( /\ tool = "fix" /\ Processed(f) /\ OneClosed(f)
      /\ stmts[f][1].kw = "from"
      /\ LeadUps(stmts[f][1].spec) >= 1
      /\ AfterUps(stmts[f][1].spec) = <<"types", "/", "express.types">> )
      => disk[f] = Rewritten(stmts[f][1],
                             prefix(depth(path[f])) \o <<"types", "/", "express.types">>)

\* C7: imports of other packages are untouched.  A relative import or
\* require whose specifier names, after its leading "../" segments, something
\* other than one of the four packages is left unchanged by both scripts, at
\* every depth.
C7_OtherPackagesUntouched ==
  \A f \in Files :
    ( /\ Processed(f) /\ OneClosed(f)
      /\ LeadUps(stmts[f][1].spec) >= 1
      /\ Tok(AfterUps(stmts[f][1].spec), 1) \notin PackageSet )
      => disk[f] = Orig(f)

\* the tokens of a specifier before its first package name
BeforePackage(sp) ==
  SubSeq(sp, 1, Min({k \in 1..Len(sp) : sp[k] \in PackageSet}) - 1)

\* C10: only purely relative specifiers are rewritten.  An import or
\* require whose specifier has, before the package name, anything other
\* than a run of literal "../" segments or a single literal "./" is left
\* unchanged by both scripts.
C10_OnlyRelativeRewritten ==
  \A f \in Files :
    ( /\ Processed(f) /\ OneClosed(f)
      /\ \E k \in 1..Len(stmts[f][1].spec) : stmts[f][1].spec[k] \in PackageSet
      /\ BeforePackage(stmts[f][1].spec) \notin RelativePrefixes
      /\ \A n \in 1..Len(stmts[f][1].spec) : BeforePackage(stmts[f][1].spec) # Up(n) )
      => disk[f] = Orig(f)

\* C3: idempotence of the Normalizer.  Applying it a second time to any
\* file text changes nothing: a second run, right after a complete run over
\* the tree, overwrites no file and reports a count of 0.
C3_Idempotent ==
  /\ \A f \in Files :
       (tool = "fix" /\ run > 1 /\ isfile[f] /\ f < pos)
         => (disk[f] = before[f] /\ f \notin written)
  /\ (tool = "fix" /\ run > 1 /\ pc = "done") => total = 0

\* C5 as claimed: for every text, what one pass of the Alias Converter
\* leaves is matched by none of its patterns, and a second pass changes
\* nothing.
C5_Total ==
  \A f \in Files :
    (tool = "alias" /\ Processed(f))
      => /\ ~SomeMatch(patterns, disk[f])
         /\ (run > 1 /\ f < pos) => disk[f] = before[f]

\* C5, amended: for every text whose import and require strings are all
\* closed and hold neither a quote nor a keyword, what one pass of the Alias
\* Converter leaves is matched by none of its patterns, and a second pass
\* changes nothing.
C5_TotalWellFormed ==
  \A f \in Files :
    (tool = "alias" /\ Processed(f) /\ WellFormed(f))
      => /\ ~SomeMatch(patterns, disk[f])
         /\ (run > 1 /\ f < pos) => disk[f] = before[f]

\* a second run of the Alias Converter has ended on a well-formed file
\* that the first run converted
C5_Witness ==
  /\ tool = "alias" /\ run > 1 /\ pc = "done"
  /\ \E f \in Files :
       isfile[f] /\ WellFormed(f) /\ Len(stmts[f]) >= 1 /\ before[f] # Orig(f)

\* C8: write-on-change and count, for either script.  A file is overwritten
\* in a run exactly when its transformed text differs from the text read;
\* every overwritten file, and no other, is reported, once; and the total
\* printed at the end is the number of files whose text differs from the
\* text they had when the run began.
C8_WriteOnChange ==
  /\ \A f \in Files :
       f \in written <=>
         (isfile[f] /\ f < pos /\ Transform(tool, before[f], path[f]) # before[f])
  /\ \A f \in Files \ {failed_at} : f \in written <=> disk[f] # before[f]
  /\ \A f \in Files :
       Cardinality({k \in 1..Len(printed) : printed[k] = f})
         = IF f \in written THEN 1 ELSE 0
  /\ pc = "done" => total = Cardinality({f \in Files : disk[f] # before[f]})

\* a run has ended that rewrote one file and left another file alone
C8_Witness ==
  /\ pc = "done" /\ total = 1
  /\ \E f, g \in Files :
       f \in written /\ isfile[g] /\ g \notin written /\ stmts[g] # <<>>

\* C9: abort without rollback.  Once a read or a write has failed, the run
\* has stopped at that file; every file before it holds its rewritten text,
\* every file after it holds the text it had, and nothing more is processed
\* or printed.
C9_AbortNoRollback ==
  failed_at # 0 =>
    /\ pc = "aborted" /\ pos = failed_at /\ total = -1
    /\ \A f \in Files :
         /\ f < failed_at =>
              disk[f] = IF isfile[f] THEN Transform(tool, before[f], path[f])
                        ELSE before[f]
         /\ f > failed_at => disk[f] = before[f]

\* the second file failed after the first was rewritten, and a third file
\* that the run would have rewritten was never reached
C9_Witness ==
  /\ pc = "aborted" /\ failed_at = 2 /\ 1 \in written /\ Len(disk) = 3
  /\ isfile[3] /\ disk[3] = before[3]
  /\ Transform(tool, disk[3], path[3]) # disk[3]

====
